---- MODULE Spec2Model ----
(***************************************************************************)
(* The authentication / authorization pipeline of the multi-user todo      *)
(* backend (backend/app): JWTMiddleware.dispatch, the get_current_user_id  *)
(* dependency, the task route handlers with verify_user_id_match, the      *)
(* task_crud storage functions and SessionService.                         *)
(*                                                                         *)
(* A request occupies a slot of `req` and moves                            *)
(*   idle -> (JWTMiddleware.dispatch) -> dep -> (get_current_user_id)      *)
(*        -> handler -> (route handler) -> done -> idle.                   *)
(* The clock may advance between any two stages and requests interleave.   *)
(*                                                                         *)
(* Library behaviour assumed (PyJWT 2.x, FastAPI):                         *)
(*   - jwt.decode checks, in this order: the token parses, the header's    *)
(*     alg is one of `algorithms`, the signature, then exp (only when the  *)
(*     claim is present; expired when exp <= now);                         *)
(*   - an HTTPException is answered with its status_code, detail, headers, *)
(*     whether a dependency, a handler or JWTMiddleware.dispatch raises it *)
(*     (the application's HTTPException handler is taken to cover the      *)
(*     middleware as well).                                                *)
(***************************************************************************)
EXTENDS Integers, Sequences, FiniteSets, TLC

(* ------------------------------ bounds --------------------------------- *)
\* the clock takes the values Epoch .. Epoch + MaxTime
MaxTime == 1
\* number of requests / calls that can be in flight together
MaxReq == 2
\* number of rows the tasks table ever receives (ids 1 .. MaxTasks)
MaxTasks == 2
\* the local timezone is UTC-MaxTz .. UTC+MaxTz (in clock units)
MaxTz == 2
\* threshold_minutes ranges over 0 .. MaxThreshold
MaxThreshold == 2

Epoch == MaxTz + 1
MaxNow == Epoch + MaxTime
Reqs == 1 .. MaxReq

(* ------------------------------ values --------------------------------- *)
\* two user ids that differ only in case
Users == {"u1", "U1"}
NoUser == "<none>"            \* Python None for a user id / sub claim
NoEmail == "<none>"
NoExp == 0 - 1                  \* payload without an exp claim
Unset == "<unset>"            \* environment variable not set

\* src/backend/app/config.py:16, the default of os.getenv
Fallback == "fallback-secret-for-testing"
\* values the environment variable BETTER_AUTH_SECRET takes
EnvSecrets == {Unset, "k1"}
\* a secret that is never configured
OtherSecret == "k2"

(* ------------------------------ tokens --------------------------------- *)
\* A compact JWT, by what its three segments decode to: the header's alg,
\* the key its signature was made with, and the payload claims.
Exps == {NoExp, Epoch, Epoch + 1, MaxNow + 1}

Jwt(alg, key, sub, exp, email) ==
  [fmt |-> "jwt", alg |-> alg, key |-> key, sub |-> sub, exp |-> exp, email |-> email]

\* "invalid.token.here": not three base64url segments of JSON
Garbage == [fmt |-> "garbage", alg |-> "", key |-> "", sub |-> NoUser, exp |-> NoExp,
            email |-> NoEmail]

EmailOf(u) == IF u = "u1" THEN "u1@example.com" ELSE NoEmail

Tokens ==
       { Jwt("HS256", "k1", u, e, EmailOf(u)) : u \in Users, e \in Exps }
  \cup { Jwt("HS256", "k1", s, MaxNow + 1, NoEmail) : s \in {NoUser, ""} }
  \cup { Jwt("HS256", Fallback, u, MaxNow + 1, EmailOf(u)) : u \in Users }
  \cup { Jwt("HS256", Fallback, "u1", Epoch, NoEmail) }
  \cup { Jwt("HS256", Fallback, NoUser, MaxNow + 1, NoEmail) }
  \cup { Jwt("HS256", OtherSecret, "u1", e, NoEmail) : e \in {Epoch, MaxNow + 1} }
  \cup { Jwt("none", "", u, MaxNow + 1, NoEmail) : u \in {"u1"} }
  \cup { Jwt("HS512", "k1", u, MaxNow + 1, NoEmail) : u \in {"u1"} }
  \cup { Garbage }

(* --------------------------- header strings ---------------------------- *)
\* An Authorization header value is a sequence of atoms: a word, one space
\* ("SP"), or a token.  The empty sequence is the absent (or empty) header.
Word(w) == [k |-> w, t |-> Garbage]
SP == Word("SP")
Tok(t) == [k |-> "tok", t |-> t]

Bearer(t) == << Word("Bearer"), SP, Tok(t) >>

SomeToken == Jwt("HS256", "k1", "u1", MaxNow + 1, EmailOf("u1"))

MalformedHeaders ==
  { << >>,
    << Word("Bearer") >>,
    << Word("Bearer"), SP >>,
    << Word("bearer"), SP, Tok(SomeToken) >>,
    << Word("Basic"), SP, Tok(SomeToken) >>,
    << Word("Bearer"), SP, SP, Tok(SomeToken) >>,
    << Word("Bearer"), SP, Tok(SomeToken), SP, Word("x") >> }

Headers == { Bearer(t) : t \in Tokens } \cup MalformedHeaders

\* str.startswith("Bearer ")
StartsWithBearer(h) == Len(h) >= 2 /\ h[1] = Word("Bearer") /\ h[2] = SP

\* index of the first space at or after position i, Len(h) + 1 when none
RECURSIVE NextSpace(_, _)
NextSpace(h, i) ==
  IF i > Len(h) THEN Len(h) + 1
  ELSE IF h[i] = SP THEN i ELSE NextSpace(h, i + 1)

\* str.split(" ")[1]: what lies between the first and the second space
SplitSecond(h) ==
  LET a == NextSpace(h, 1)
      b == NextSpace(h, a + 1)
  IN  SubSeq(h, a + 1, b - 1)

\* str.replace("Bearer ", ""): every occurrence of the word followed by a space goes
RECURSIVE RemoveBearer(_)
RemoveBearer(h) ==
  IF Len(h) = 0 THEN << >>
  ELSE IF StartsWithBearer(h) THEN RemoveBearer(SubSeq(h, 3, Len(h)))
  ELSE << h[1] >> \o RemoveBearer(Tail(h))

\* str.strip()
RECURSIVE Strip(_)
Strip(h) ==
  IF Len(h) = 0 THEN h
  ELSE IF h[1] = SP THEN Strip(Tail(h))
  ELSE IF h[Len(h)] = SP THEN Strip(SubSeq(h, 1, Len(h) - 1))
  ELSE h

(* ------------------------------ jwt.decode ----------------------------- *)
Claims(err, sub, email, exp) == [err |-> err, sub |-> sub, email |-> email, exp |-> exp]
Failed(err) == Claims(err, NoUser, NoEmail, NoExp)

\* faulty variant of jwt.decode: options={"verify_exp": False}
jwt_decode_no_exp(s, key, algs, t) ==
  IF ~(Len(s) = 1 /\ s[1].k = "tok" /\ s[1].t.fmt = "jwt") THEN Failed("DecodeError")
  ELSE LET tk == s[1].t IN
    IF tk.alg \notin algs THEN Failed("InvalidAlgorithmError")
    ELSE IF tk.key # key THEN Failed("InvalidSignatureError")
    ELSE Claims("", tk.sub, tk.email, tk.exp)

\* faulty variant of jwt.decode: the signature is not compared
jwt_decode_no_signature(s, key, algs, t) ==
  IF ~(Len(s) = 1 /\ s[1].k = "tok" /\ s[1].t.fmt = "jwt") THEN Failed("DecodeError")
  ELSE LET tk == s[1].t IN
    IF tk.alg \notin algs THEN Failed("InvalidAlgorithmError")
    ELSE IF tk.exp # NoExp /\ tk.exp <= t THEN Failed("ExpiredSignatureError")
    ELSE Claims("", tk.sub, tk.email, tk.exp)

\* faulty variant of jwt.decode: the algorithm named by the token's header is
\* accepted, whatever `algorithms` lists
jwt_decode_alg_from_token(s, key, algs, t) ==
  IF ~(Len(s) = 1 /\ s[1].k = "tok" /\ s[1].t.fmt = "jwt") THEN Failed("DecodeError")
  ELSE LET tk == s[1].t IN
    IF tk.alg # "none" /\ tk.key # key THEN Failed("InvalidSignatureError")
    ELSE IF tk.exp # NoExp /\ tk.exp <= t THEN Failed("ExpiredSignatureError")
    ELSE Claims("", tk.sub, tk.email, tk.exp)

\* jwt.decode(token, key, algorithms=algs) at clock value t.  `s` is the token
\* string (a sequence of atoms); anything but a single JWT does not parse.
jwt_decode(s, key, algs, t) ==
  IF ~(Len(s) = 1 /\ s[1].k = "tok" /\ s[1].t.fmt = "jwt") THEN Failed("DecodeError")
  ELSE LET tk == s[1].t IN
    IF tk.alg \notin algs THEN Failed("InvalidAlgorithmError")
    ELSE IF tk.key # key THEN Failed("InvalidSignatureError")
    ELSE IF tk.exp # NoExp /\ tk.exp <= t THEN Failed("ExpiredSignatureError")
    ELSE Claims("", tk.sub, tk.email, tk.exp)

\* jwt.decode(token, options={"verify_signature": False})
jwt_decode_unverified(s) ==
  IF ~(Len(s) = 1 /\ s[1].k = "tok" /\ s[1].t.fmt = "jwt") THEN Failed("DecodeError")
  ELSE Claims("", s[1].t.sub, s[1].t.email, s[1].t.exp)

(* ------------------------------ storage -------------------------------- *)
NoDesc == "<none>"            \* description IS NULL
FieldUnset == "<unset>"       \* a field the request body does not carry

Titles == {"a", "b"}
Descriptions == {NoDesc, "d"}

Row(id, user_id, title, description, completed, created_at, updated_at) ==
  [id |-> id, user_id |-> user_id, title |-> title, description |-> description,
   completed |-> completed, created_at |-> created_at, updated_at |-> updated_at]

\* faulty variant of the owner-scoped select: the row is looked up by id alone
SelectById(T, task_id, user_id) == { row \in T : row.id = task_id }

\* session.exec(select(Task).where(Task.id == task_id, Task.user_id == user_id))
SelectByIdAndUser(T, task_id, user_id) ==
  { row \in T : row.id = task_id /\ row.user_id = user_id }

\* get_task_by_id: .first() of the owner-scoped select, {} for None
get_task_by_id(T, task_id, user_id) == SelectByIdAndUser(T, task_id, user_id)

\* faulty variant of get_tasks_by_user: the select has no where clause
get_all_tasks(T, user_id) == T

\* get_tasks_by_user: select(Task).where(Task.user_id == user_id).all()
get_tasks_by_user(T, user_id) == { row \in T : row.user_id = user_id }

\* create_task: the row added; the owner is the user_id argument, never the body
create_task(task_data, user_id, id, t) ==
  Row(id, user_id, task_data.title, task_data.description, FALSE, t, t)

\* faulty variant of UpdatedRow: the fields are taken from model_dump() without
\* exclude_unset, so a description the request did not supply is set to None
UpdatedRowDumpAll(row, task_update, t) ==
  [row EXCEPT
     !.title = IF task_update.title = FieldUnset THEN @ ELSE task_update.title,
     !.description = IF task_update.description = FieldUnset THEN NoDesc
                     ELSE task_update.description,
     !.completed = IF task_update.completed = FieldUnset THEN @
                   ELSE task_update.completed = "true",
     !.updated_at = t]

\* update_task on the row found: setattr for every field of
\* task_update.model_dump(exclude_unset=True), then updated_at = utcnow()
UpdatedRow(row, task_update, t) ==
  [row EXCEPT
     !.user_id = IF task_update.user_id = FieldUnset THEN @ ELSE task_update.user_id,
     !.title = IF task_update.title = FieldUnset THEN @ ELSE task_update.title,
     !.description = IF task_update.description = FieldUnset THEN @
                     ELSE task_update.description,
     !.completed = IF task_update.completed = FieldUnset THEN @
                   ELSE task_update.completed = "true",
     !.updated_at = t]

\* update_task: the table afterwards
update_task(T, task_id, user_id, task_update, t) ==
  LET found == SelectByIdAndUser(T, task_id, user_id) IN
  (T \ found) \cup { UpdatedRow(row, task_update, t) : row \in found }

\* delete_task: the value returned, True when the owner-scoped select finds a row
delete_task_returns(T, task_id, user_id) == SelectByIdAndUser(T, task_id, user_id) # {}

\* faulty variant of delete_task: the row is deleted whoever owns it
delete_task_any_owner(T, task_id, user_id) == T \ SelectById(T, task_id, user_id)

\* delete_task: the table afterwards
delete_task(T, task_id, user_id) == T \ SelectByIdAndUser(T, task_id, user_id)

\* faulty variant of ToggledRow: the task is marked complete, not toggled
ToggledRowSetTrue(row, t) == [row EXCEPT !.completed = TRUE, !.updated_at = t]

\* toggle_task_completion on the row found
ToggledRow(row, t) == [row EXCEPT !.completed = ~@, !.updated_at = t]

\* faulty variant of toggle_task_completion: the row is toggled whoever owns it
toggle_task_completion_any_owner(T, task_id, user_id, t) ==
  LET found == SelectById(T, task_id, user_id) IN
  (T \ found) \cup { ToggledRow(row, t) : row \in found }

\* toggle_task_completion: the table afterwards
toggle_task_completion(T, task_id, user_id, t) ==
  LET found == SelectByIdAndUser(T, task_id, user_id) IN
  (T \ found) \cup { ToggledRow(row, t) : row \in found }

(* ---------------------------- request bodies --------------------------- *)
\* JSON bodies of POST: title, description and possibly an owner field
\* (user_id) that the TaskCreate schema does not declare
CreateBodies ==
  [title : Titles, description : Descriptions, user_id : Users \cup {FieldUnset}]

\* TaskCreate (schemas/task.py) built from a body: a field the schema does not
\* declare is dropped
TaskCreate(body) == [body EXCEPT !.user_id = FieldUnset]

\* JSON bodies of PUT: any of title, description, completed, and possibly an
\* owner field (user_id) that the TaskUpdate schema does not declare
UpdateBodies ==
  [title : Titles \cup {FieldUnset}, description : {"d", FieldUnset},
   completed : {"true", "false", FieldUnset}, user_id : Users \cup {FieldUnset}]

\* faulty variant of TaskUpdate: the schema lets undeclared fields through
TaskUpdateAllowExtra(body) == body

\* TaskUpdate (schemas/task.py) built from a body: a field the schema does not
\* declare is dropped
TaskUpdate(body) == [body EXCEPT !.user_id = FieldUnset]

\* src/backend/app/models/models.py:32, max_length of the column Task.title
ColumnTitleMax == 200
\* src/backend/app/schemas/task.py:12, max_length of TaskBase.title
TaskBaseTitleMax == 255
\* src/backend/app/schemas/task.py:40, max_length of TaskUpdate.title
TaskUpdateTitleMax == 255
\* src/backend/app/routes/tasks.py:183, the length the update handler compares with
HandlerTitleMax == 255

\* titles written as in the tests ("x" * 201): one character repeated, at and
\* just above the column's limit and at and just above the schemas' limit
TitlesByLength == {"x*200", "x*201", "x*255", "x*256"}

\* len(title)
len(title) ==
  CASE title = "x*200" -> ColumnTitleMax
    [] title = "x*201" -> ColumnTitleMax + 1
    [] title = "x*255" -> TaskBaseTitleMax
    [] title = "x*256" -> TaskBaseTitleMax + 1
    [] OTHER -> 1

\* pydantic accepts the body as a TaskCreate (schemas/task.py, the module the
\* routes import)
TaskCreateValid(body) == len(body.title) <= TaskBaseTitleMax

\* pydantic accepts the body as a TaskUpdate
TaskUpdateValid(body) == body.title = FieldUnset \/ len(body.title) <= TaskUpdateTitleMax

\* the database refuses a value longer than the column (PostgreSQL raises on a
\* VARCHAR(200) overflow; SQLite, the default DATABASE_URL, stores it)
ColumnRefuses(title) == title # FieldUnset /\ len(title) > ColumnTitleMax

TaskIds == 1 .. MaxTasks

(* ------------------------------- state --------------------------------- *)
VARIABLES
  env,      \* the environment variable BETTER_AUTH_SECRET (fixed at process start)
  now,      \* the clock (seconds since the epoch, UTC)
  tasks,    \* the rows of the tasks table
  nextId,   \* the id the next inserted row receives
  req       \* the requests and calls in flight, one record per slot

vars == << env, now, tasks, nextId, req >>

\* settings.BETTER_AUTH_SECRET: os.getenv("BETTER_AUTH_SECRET", "fallback-...")
settings_secret == IF env = Unset THEN Fallback ELSE env

\* os.getenv("BETTER_AUTH_SECRET"), read per request by the dependency
getenv_secret == env

NoSession == [ok |-> FALSE, user_id |-> NoUser, email |-> NoEmail, exp |-> NoExp]

PublicPaths == {"/docs", "/redoc", "/openapi.json", "/health", "/"}
TasksPath == "/api/{user_id}/tasks"
\* a path that is not on the allow-list and has no route
OtherPath == "/health/check"
Ops == {"list", "create", "get", "update", "delete", "toggle"}

\* A slot.  pc is the stage the request has reached; stage names the code that
\* produced the response; scope is the owner value handed to task_crud (NoUser
\* when no storage call was issued); body is the set of rows returned; err is
\* the jwt exception behind a refusal; mw_at, dep_at and called_at record the
\* clock when the middleware, the dependency and SessionService verified;
\* sent_user_id is the user_id field of the JSON body, if it carried one.
Idle ==
  [pc |-> "idle", kind |-> "", path |-> "", op |-> "", header |-> << >>,
   user_id |-> NoUser, mw_token |-> << >>, dep_token |-> << >>,
   state_user_id |-> NoUser, state_email |-> NoEmail,
   token_user_id |-> NoUser, scope |-> NoUser, task_id |-> 0,
   status |-> 0, detail |-> "", www |-> FALSE, stage |-> "", body |-> {},
   tz |-> 0, session |-> NoSession,
   err |-> "", mw_at |-> 0, dep_at |-> 0, called_at |-> 0,
   sent_user_id |-> FieldUnset,
   sent_title |-> FieldUnset, sent_description |-> FieldUnset,
   sent_completed |-> FieldUnset,
   expected |-> NoUser, threshold |-> 0, flag |-> FALSE,
   remaining |-> [none |-> TRUE, seconds |-> 0]]

\* lifespan, given DATABASE_URL is set: a missing or fallback secret is logged
\* as a warning ("warned") and start-up goes on to serve in either case
lifespan(e) ==
  LET secret == IF e = Unset THEN Fallback ELSE e IN
  IF secret = "" \/ secret = Fallback THEN "warned" ELSE "ok"

\* start-up completes and the application serves requests
Serves(e) == lifespan(e) \in {"warned", "ok"}

Init ==
  /\ env \in { e \in EnvSecrets : Serves(e) }
  /\ now = Epoch
  /\ tasks = {}
  /\ nextId = 1
  /\ req = [r \in Reqs |-> Idle]

\* raise HTTPException(status_code, detail, headers) / return: the response
Respond(q, stage, status, detail, www, body) ==
  [q EXCEPT !.pc = "done", !.stage = stage, !.status = status, !.detail = detail,
            !.www = www, !.body = body]

(* ------------------------------ the clock ------------------------------ *)
Tick ==
  /\ now < MaxNow
  /\ now' = now + 1
  /\ UNCHANGED << env, tasks, nextId, req >>

(* ------------------------- JWTMiddleware.dispatch ---------------------- *)
\* the token the middleware verifies: auth_header.split(" ")[1]
MiddlewareToken(h) == SplitSecond(h)

\* jwt.decode(token, settings.BETTER_AUTH_SECRET, algorithms=["HS256"])
MiddlewareDecode(s, t) == jwt_decode(s, settings_secret, {"HS256"}, t)

\* faulty variant of the allow-list test: no path is exempt
IsPublicNever(path) == FALSE

\* request.url.path in ["/docs", "/redoc", "/openapi.json", "/health", "/"]
IsPublic(path) == path \in PublicPaths

\* call_next on a public path: health_check answers {"status": "healthy"}, the
\* documentation routes answer 200, and "/" has no route (404 from the router)
call_next_public(q) ==
  IF q.path = "/health" THEN Respond(q, "public", 200, "healthy", FALSE, {})
  ELSE IF q.path = "/" THEN Respond(q, "public", 404, "Not Found", FALSE, {})
  ELSE Respond(q, "public", 200, "", FALSE, {})

\* the slot after dispatch has run on an arriving request
dispatch(q) ==
  IF IsPublic(q.path)
    THEN call_next_public(q)
  ELSE IF q.header = << >> \/ ~StartsWithBearer(q.header)
    THEN Respond(q, "middleware", 401, "Missing or invalid Authorization header", FALSE, {})
  ELSE LET token == MiddlewareToken(q.header)
           payload == MiddlewareDecode(token, now)
           q1 == [q EXCEPT !.mw_token = token, !.mw_at = now, !.err = payload.err]
       IN  IF payload.err = "" /\ q.path # TasksPath
             THEN Respond([q1 EXCEPT !.state_user_id = payload.sub,
                                     !.state_email = payload.email],
                          "router", 404, "Not Found", FALSE, {})
           ELSE IF payload.err = ""
             THEN [q1 EXCEPT !.pc = "dep", !.state_user_id = payload.sub,
                             !.state_email = payload.email]
           ELSE IF payload.err = "ExpiredSignatureError"
             THEN Respond(q1, "middleware", 401, "Token has expired", FALSE, {})
           ELSE Respond(q1, "middleware", 401, "Invalid token", FALSE, {})

\* a request for a task endpoint arrives and passes through the middleware
Dispatch(r, h, u, op) ==
  /\ req[r].pc = "idle"
  /\ req' = [req EXCEPT ![r] =
       dispatch([Idle EXCEPT !.kind = "request", !.path = TasksPath, !.op = op,
                             !.header = h, !.user_id = u])]
  /\ UNCHANGED << env, now, tasks, nextId >>

\* a request for a public path arrives
DispatchPublic(r, h, p) ==
  /\ req[r].pc = "idle"
  /\ req' = [req EXCEPT ![r] =
       dispatch([Idle EXCEPT !.kind = "request", !.path = p, !.op = "public",
                             !.header = h])]
  /\ UNCHANGED << env, now, tasks, nextId >>

\* a request arrives for a path that is neither public nor a task route
DispatchOther(r, h) ==
  /\ req[r].pc = "idle"
  /\ req' = [req EXCEPT ![r] =
       dispatch([Idle EXCEPT !.kind = "request", !.path = OtherPath, !.op = "other",
                             !.header = h])]
  /\ UNCHANGED << env, now, tasks, nextId >>

(* --------------------------- get_current_user_id ----------------------- *)
\* the token the dependency verifies: authorization.replace("Bearer ", "").strip()
DependencyToken(h) == Strip(RemoveBearer(h))

\* jwt.decode(token, secret, algorithms=["HS256"], options={"verify_signature": True})
DependencyDecode(s, secret, t) == jwt_decode(s, secret, {"HS256"}, t)

\* faulty variant of the sub check: the check is left out
MissingSubNever(sub) == FALSE

\* `not user_id`: the sub claim is absent or empty
MissingSub(sub) == sub = NoUser \/ sub = ""

\* str(e) of the exception jwt.decode raised (the messages of PyJWT)
ExceptionText(err) ==
  CASE err = "DecodeError" -> "Not enough segments"
    [] err = "InvalidAlgorithmError" -> "The specified alg value is not allowed"
    [] err = "InvalidSignatureError" -> "Signature verification failed"
    [] err = "ExpiredSignatureError" -> "Signature has expired"

\* faulty variant of the returned identity: it is read from process-wide state
\* that the middleware of the request in slot 1 wrote last
returned_user_id_shared(payload) == req[1].state_user_id

\* user_id = payload.get("sub") ... return user_id
returned_user_id(payload) == payload.sub

get_current_user_id(q) ==
  IF ~StartsWithBearer(q.header)
    THEN Respond(q, "dependency", 401,
                 "Invalid authorization header format. Expected 'Bearer <token>'", TRUE, {})
  ELSE LET token == DependencyToken(q.header)
           q1 == [q EXCEPT !.dep_token = token] IN
    IF token = << >>
      THEN Respond(q1, "dependency", 401, "Token not provided", TRUE, {})
    ELSE IF getenv_secret = Unset
      THEN Respond(q1, "dependency", 500,
                   "Server configuration error: BETTER_AUTH_SECRET not set", FALSE, {})
    ELSE LET payload == DependencyDecode(token, getenv_secret, now)
             q2 == [q1 EXCEPT !.dep_at = now, !.err = payload.err] IN
      IF payload.err # ""
        THEN Respond(q2, "dependency", 401,
                     "Invalid or expired token: " \o ExceptionText(payload.err), TRUE, {})
      ELSE IF MissingSub(payload.sub)
        THEN Respond(q2, "dependency", 401, "Token missing 'sub' claim (user ID)", TRUE, {})
      ELSE [q2 EXCEPT !.pc = "handler", !.token_user_id = returned_user_id(payload)]

GetCurrentUserId(r) ==
  /\ req[r].pc = "dep"
  /\ req' = [req EXCEPT ![r] = get_current_user_id(req[r])]
  /\ UNCHANGED << env, now, tasks, nextId >>

(* ------------------------------ the routes ----------------------------- *)
\* str.lower() on the user ids of the model
Lower(id) == IF id = "U1" THEN "u1" ELSE id

\* faulty variant of verify_user_id_match: the ids are compared case-insensitively
verify_user_id_match_nocase(url_user_id, token_user_id) ==
  Lower(url_user_id) = Lower(token_user_id)

\* verify_user_id_match passes (does not raise 403)
verify_user_id_match(url_user_id, token_user_id) == url_user_id = token_user_id

\* faulty variant of the 403 answer: the storage query was issued before the
\* owner check
ForbiddenAfterQuery(q) ==
  Respond([q EXCEPT !.scope = q.user_id], "handler", 403,
          "Access denied: user_id mismatch", FALSE, {})

\* faulty variant of the 403 answer: the detail tells whether the owner named
\* in the path has tasks
ForbiddenWithCount(q) ==
  Respond(q, "handler", 403,
          IF \E row \in tasks : row.user_id = q.user_id
            THEN "Access denied: tasks belong to " \o q.user_id
          ELSE "Access denied: user_id mismatch", FALSE, {})

Forbidden(q) == Respond(q, "handler", 403, "Access denied: user_id mismatch", FALSE, {})
\* faulty variant of the 404 answer: a task of another user is told apart
NotFoundOracle(q) ==
  IF \E row \in tasks : row.id = q.task_id
    THEN Respond(q, "handler", 403, "Task belongs to another user", FALSE, {})
  ELSE Respond(q, "handler", 404, "Task not found or does not belong to user", FALSE, {})

NotFound(q) ==
  Respond(q, "handler", 404, "Task not found or does not belong to user", FALSE, {})

\* the 422 FastAPI answers when the body fails validation, before the handler runs
Unprocessable(q) == Respond(q, "validation", 422, "string_too_long", FALSE, {})

AtHandler(r, op) == req[r].pc = "handler" /\ req[r].op = op

\* faulty variant of StorageOwner: an owner field of the body is honoured
StorageOwnerFromBody(q) ==
  IF q.sent_user_id # FieldUnset THEN q.sent_user_id ELSE q.user_id

\* the owner value a handler hands to task_crud: the path's user_id
StorageOwner(q) == q.user_id

\* detail of the 500 a handler raises from `except Exception`
InternalErrorDetail(op) ==
  CASE op = "list"   -> "Internal server error while retrieving tasks"
    [] op = "create" -> "Internal server error while creating task"
    [] op = "get"    -> "Internal server error while retrieving task"
    [] op = "update" -> "Internal server error while updating task"
    [] op = "delete" -> "Internal server error while deleting task"
    [] op = "toggle" -> "Internal server error while toggling task completion"

\* GET /api/{user_id}/tasks/
GetTasks(r) ==
  /\ AtHandler(r, "list")
  /\ LET q == req[r] IN
     req' = [req EXCEPT ![r] =
       IF ~verify_user_id_match(q.user_id, q.token_user_id) THEN Forbidden(q)
       ELSE Respond([q EXCEPT !.scope = StorageOwner(q)], "handler", 200, "", FALSE,
                    get_tasks_by_user(tasks, StorageOwner(q)))]
  /\ UNCHANGED << env, now, tasks, nextId >>

\* POST /api/{user_id}/tasks/
CreateNewTask(r, body) ==
  /\ AtHandler(r, "create")
  /\ LET q == [req[r] EXCEPT !.sent_user_id = body.user_id, !.sent_title = body.title] IN
     IF ~TaskCreateValid(body)
       THEN /\ req' = [req EXCEPT ![r] = Unprocessable(q)]
            /\ UNCHANGED << tasks, nextId >>
     ELSE IF ~verify_user_id_match(q.user_id, q.token_user_id)
       THEN /\ req' = [req EXCEPT ![r] = Forbidden(q)]
            /\ UNCHANGED << tasks, nextId >>
       ELSE /\ nextId <= MaxTasks
            /\ LET row == create_task(TaskCreate(body), StorageOwner(q), nextId, now) IN
               \/ /\ tasks' = tasks \cup {row}
                  /\ nextId' = nextId + 1
                  /\ req' = [req EXCEPT ![r] =
                       Respond([q EXCEPT !.scope = StorageOwner(q), !.task_id = row.id],
                               "handler", 201, "", FALSE, {row})]
               \/ /\ ColumnRefuses(row.title)
                  /\ req' = [req EXCEPT ![r] =
                       Respond([q EXCEPT !.scope = StorageOwner(q)], "handler", 500,
                               InternalErrorDetail("create"), FALSE, {})]
                  /\ UNCHANGED << tasks, nextId >>
  /\ UNCHANGED << env, now >>

\* GET /api/{user_id}/tasks/{task_id}
GetSpecificTask(r, task_id) ==
  /\ AtHandler(r, "get")
  /\ LET q == [req[r] EXCEPT !.task_id = task_id] IN
     req' = [req EXCEPT ![r] =
       IF ~verify_user_id_match(q.user_id, q.token_user_id) THEN Forbidden(q)
       ELSE LET task == get_task_by_id(tasks, task_id, StorageOwner(q))
                q1 == [q EXCEPT !.scope = StorageOwner(q)] IN
            IF task = {} THEN NotFound(q1)
            ELSE Respond(q1, "handler", 200, "", FALSE, task)]
  /\ UNCHANGED << env, now, tasks, nextId >>

\* PUT /api/{user_id}/tasks/{task_id}
UpdateExistingTask(r, task_id, task_data) ==
  /\ AtHandler(r, "update")
  /\ LET q == [req[r] EXCEPT !.task_id = task_id, !.sent_user_id = task_data.user_id,
                              !.sent_title = task_data.title,
                              !.sent_description = task_data.description,
                              !.sent_completed = task_data.completed] IN
     IF ~TaskUpdateValid(task_data)
       THEN /\ req' = [req EXCEPT ![r] = Unprocessable(q)]
            /\ UNCHANGED tasks
     ELSE IF ~verify_user_id_match(q.user_id, q.token_user_id)
       THEN /\ req' = [req EXCEPT ![r] = Forbidden(q)]
            /\ UNCHANGED tasks
     ELSE IF task_data.title # FieldUnset /\ len(task_data.title) > HandlerTitleMax
       THEN /\ req' = [req EXCEPT ![r] =
                 Respond(q, "handler", 422, "Title must be 255 characters or less",
                         FALSE, {})]
            /\ UNCHANGED tasks
       ELSE LET q1 == [q EXCEPT !.scope = StorageOwner(q)]
                found == SelectByIdAndUser(tasks, task_id, StorageOwner(q)) IN
            \/ /\ tasks' = update_task(tasks, task_id, StorageOwner(q),
                                       TaskUpdate(task_data), now)
               /\ req' = [req EXCEPT ![r] =
                    IF found = {}
                      THEN NotFound(q1)
                    ELSE Respond(q1, "handler", 200, "", FALSE,
                                 SelectByIdAndUser(tasks', task_id, StorageOwner(q)))]
            \/ /\ found # {} /\ ColumnRefuses(task_data.title)
               /\ req' = [req EXCEPT ![r] =
                    Respond(q1, "handler", 500, InternalErrorDetail("update"), FALSE, {})]
               /\ UNCHANGED tasks
  /\ UNCHANGED << env, now, nextId >>

\* DELETE /api/{user_id}/tasks/{task_id}
DeleteExistingTask(r, task_id) ==
  /\ AtHandler(r, "delete")
  /\ LET q == [req[r] EXCEPT !.task_id = task_id] IN
     IF ~verify_user_id_match(q.user_id, q.token_user_id)
       THEN /\ req' = [req EXCEPT ![r] = Forbidden(q)]
            /\ UNCHANGED tasks
       ELSE LET q1 == [q EXCEPT !.scope = StorageOwner(q)] IN
            /\ tasks' = delete_task(tasks, task_id, StorageOwner(q))
            /\ req' = [req EXCEPT ![r] =
                 IF SelectByIdAndUser(tasks, task_id, StorageOwner(q)) = {}
                   THEN NotFound(q1)
                 ELSE Respond(q1, "handler", 204, "", FALSE, {})]
  /\ UNCHANGED << env, now, nextId >>

\* PATCH /api/{user_id}/tasks/{task_id}/complete
ToggleTaskCompletionStatus(r, task_id) ==
  /\ AtHandler(r, "toggle")
  /\ LET q == [req[r] EXCEPT !.task_id = task_id] IN
     IF ~verify_user_id_match(q.user_id, q.token_user_id)
       THEN /\ req' = [req EXCEPT ![r] = Forbidden(q)]
            /\ UNCHANGED tasks
       ELSE LET q1 == [q EXCEPT !.scope = StorageOwner(q)] IN
            /\ tasks' = toggle_task_completion(tasks, task_id, StorageOwner(q), now)
            /\ req' = [req EXCEPT ![r] =
                 IF SelectByIdAndUser(tasks, task_id, StorageOwner(q)) = {}
                   THEN NotFound(q1)
                 ELSE Respond(q1, "handler", 200, "", FALSE,
                              SelectByIdAndUser(tasks', task_id, StorageOwner(q)))]
  /\ UNCHANGED << env, now, nextId >>

\* the response has been sent: the request's state is discarded
Complete(r) ==
  /\ req[r].pc = "done"
  /\ req' = [req EXCEPT ![r] = Idle]
  /\ UNCHANGED << env, now, tasks, nextId >>

\* a handler whose task_crud call raises (the database fails): the owner
\* check has passed, nothing is committed, `except Exception` answers 500
StorageError(r) ==
  /\ req[r].pc = "handler"
  /\ verify_user_id_match(req[r].user_id, req[r].token_user_id)
  /\ req' = [req EXCEPT ![r] =
       Respond([req[r] EXCEPT !.scope = StorageOwner(req[r])], "handler", 500,
               InternalErrorDetail(req[r].op), FALSE, {})]
  /\ UNCHANGED << env, now, tasks, nextId >>

\* the client goes away before the pipeline completes: the request and its
\* request.state are dropped
Cancel(r) ==
  /\ req[r].pc \in {"dep", "handler"}
  /\ req' = [req EXCEPT ![r] = Idle]
  /\ UNCHANGED << env, now, tasks, nextId >>

(* ----------------------------- SessionService -------------------------- *)
\* datetime.fromtimestamp(exp) < datetime.utcnow(): a naive local time against
\* a naive UTC time; tz is the local zone's offset from UTC
LocalBeforeUtc(exp, tz, t) == exp + tz < t

\* faulty variant of validate_session: a token is good for one verification (a
\* record of the tokens seen is kept), so a second verification answers None
validate_session_once(s, tz, t) ==
  LET payload == jwt_decode(s, settings_secret, {"HS256"}, t) IN
  IF \E r \in Reqs : req[r].kind = "validate_session" /\ req[r].dep_token = s
    THEN NoSession
  ELSE IF payload.err # "" THEN NoSession
  ELSE IF LocalBeforeUtc(IF payload.exp = NoExp THEN 0 ELSE payload.exp, tz, t)
    THEN NoSession
  ELSE [ok |-> TRUE, user_id |-> payload.sub, email |-> payload.email, exp |-> payload.exp]

\* SessionService.validate_session(token) at clock value t
validate_session(s, tz, t) ==
  LET payload == jwt_decode(s, settings_secret, {"HS256"}, t) IN
  IF payload.err # "" THEN NoSession
  ELSE IF LocalBeforeUtc(IF payload.exp = NoExp THEN 0 ELSE payload.exp, tz, t)
    THEN NoSession
  ELSE [ok |-> TRUE, user_id |-> payload.sub, email |-> payload.email, exp |-> payload.exp]

\* a caller invokes SessionService.validate_session(token)
ValidateSession(r, t, tz) ==
  /\ req[r].pc = "idle"
  /\ req' = [req EXCEPT ![r] =
       [Idle EXCEPT !.pc = "done", !.kind = "validate_session", !.stage = "session",
                    !.dep_token = << Tok(t) >>, !.tz = tz, !.called_at = now,
                    !.session = validate_session(<< Tok(t) >>, tz, now)]]
  /\ UNCHANGED << env, now, tasks, nextId >>

\* src/backend/app/services/session.py:101, seconds in a minute; one unit of
\* the clock is read as one minute
SecondsPerMinute == 60

\* get_session_expiry_info returned None
NoInfo ==
  [ok |-> FALSE, has_exp |-> FALSE, exp |-> 0, expires_in_seconds |-> 0,
   user_id |-> NoUser, email |-> NoEmail]

\* SessionService.get_session_expiry_info(token) at clock value t with the
\* local timezone tz units ahead of UTC: exp is datetime.fromtimestamp(exp),
\* a local time, and expires_in_seconds is its distance from utcnow()
get_session_expiry_info(s, tz, t) ==
  LET payload == jwt_decode_unverified(s) IN
  IF payload.err # "" THEN NoInfo
  ELSE LET exp_timestamp == IF payload.exp = NoExp THEN 0 ELSE payload.exp
           has_exp == exp_timestamp # 0
           exp_datetime == exp_timestamp + tz IN
    [ok |-> TRUE, has_exp |-> has_exp,
     exp |-> IF has_exp THEN exp_datetime ELSE 0,
     expires_in_seconds |-> IF has_exp THEN SecondsPerMinute * (exp_datetime - t) ELSE 0,
     user_id |-> payload.sub, email |-> payload.email]

\* Python None for a timedelta, and timedelta(seconds=n)
NoDuration == [none |-> TRUE, seconds |-> 0]
timedelta(n) == [none |-> FALSE, seconds |-> n]

\* SessionService.get_remaining_session_time(token)
get_remaining_session_time(s, tz, t) ==
  LET expiry_info == get_session_expiry_info(s, tz, t) IN
  IF ~expiry_info.ok \/ ~expiry_info.has_exp THEN NoDuration
  ELSE timedelta(expiry_info.expires_in_seconds)

\* SessionService.is_session_about_to_expire(token, threshold_minutes)
is_session_about_to_expire(s, threshold_minutes, tz, t) ==
  LET expiry_info == get_session_expiry_info(s, tz, t) IN
  IF ~expiry_info.ok \/ ~expiry_info.has_exp THEN TRUE
  ELSE expiry_info.expires_in_seconds <= threshold_minutes * SecondsPerMinute

\* SessionService.is_valid_user_session(token, expected_user_id)
is_valid_user_session(s, expected_user_id, tz, t) ==
  LET session_info == validate_session(s, tz, t) IN
  IF ~session_info.ok THEN FALSE
  ELSE session_info.user_id = expected_user_id

\* a call of a SessionService function on token t: the slot records the
\* arguments, the timezone and the clock of the call
SessionSlot(kind, t, tz) ==
  [Idle EXCEPT !.pc = "done", !.kind = kind, !.stage = "session",
               !.dep_token = << Tok(t) >>, !.tz = tz, !.called_at = now]

GetRemainingSessionTime(r, t, tz) ==
  /\ req[r].pc = "idle"
  /\ req' = [req EXCEPT ![r] =
       [SessionSlot("get_remaining_session_time", t, tz) EXCEPT
          !.remaining = get_remaining_session_time(<< Tok(t) >>, tz, now)]]
  /\ UNCHANGED << env, now, tasks, nextId >>

IsSessionAboutToExpire(r, t, tz, threshold_minutes) ==
  /\ req[r].pc = "idle"
  /\ req' = [req EXCEPT ![r] =
       [SessionSlot("is_session_about_to_expire", t, tz) EXCEPT
          !.threshold = threshold_minutes,
          !.flag = is_session_about_to_expire(<< Tok(t) >>, threshold_minutes, tz, now)]]
  /\ UNCHANGED << env, now, tasks, nextId >>

IsValidUserSession(r, t, tz, expected_user_id) ==
  /\ req[r].pc = "idle"
  /\ req' = [req EXCEPT ![r] =
       [SessionSlot("is_valid_user_session", t, tz) EXCEPT
          !.expected = expected_user_id,
          !.flag = is_valid_user_session(<< Tok(t) >>, expected_user_id, tz, now)]]
  /\ UNCHANGED << env, now, tasks, nextId >>

(* --------------------------- the specification ------------------------- *)
\* The steps of the program with the slots, the Authorization headers and the
\* request bodies drawn from the given sets.
Step(R, H, CB, UB) ==
  \/ \E r \in R, h \in H, u \in Users, op \in Ops : Dispatch(r, h, u, op)
  \/ \E r \in R, h \in H, p \in PublicPaths : DispatchPublic(r, h, p)
  \/ \E r \in R, h \in H : DispatchOther(r, h)
  \/ \E r \in R : GetCurrentUserId(r)
  \/ \E r \in R : GetTasks(r)
  \/ \E r \in R, body \in CB : CreateNewTask(r, body)
  \/ \E r \in R, id \in TaskIds : GetSpecificTask(r, id)
  \/ \E r \in R, id \in TaskIds, body \in UB : UpdateExistingTask(r, id, body)
  \/ \E r \in R, id \in TaskIds : DeleteExistingTask(r, id)
  \/ \E r \in R, id \in TaskIds : ToggleTaskCompletionStatus(r, id)
  \/ \E r \in R : Complete(r)
  \/ \E r \in R : Cancel(r)

\* headers carrying a token that is accepted whenever the secret is configured
ValidHeaders == { Bearer(Jwt("HS256", "k1", u, MaxNow + 1, EmailOf(u))) : u \in Users }

\* bodies that leave title and description at one value
PlainCreateBodies == { b \in CreateBodies : b.title = "a" /\ b.description = NoDesc }
PlainUpdateBodies ==
  { b \in UpdateBodies : b.title = FieldUnset /\ b.description = FieldUnset
                         /\ b.completed # FieldUnset }

\* One request at a time, every header shape and token, the clock advancing
\* between the stages; SessionService called from outside the pipeline.
Next ==
  \/ Tick
  \/ Step({1}, Headers, PlainCreateBodies, PlainUpdateBodies)
  \/ \E t \in Tokens, tz \in (0 - MaxTz) .. MaxTz : ValidateSession(1, t, tz)

Spec == Init /\ [][Next]_vars

\* One request at a time by the holders of valid tokens (and one header that is
\* refused), every request body, the clock advancing.
NextStore ==
  \/ Tick
  \/ Step({1}, ValidHeaders \cup {<< >>}, CreateBodies, UpdateBodies)

SpecStore == Init /\ [][NextStore]_vars

\* MaxReq requests in flight together, their stages interleaved in every order.
NextConc == Step(Reqs, ValidHeaders \cup {<< >>}, PlainCreateBodies, PlainUpdateBodies)

SpecConc == Init /\ [][NextConc]_vars

\* headers with a token signed with the fallback secret of config.py
FallbackHeaders == { Bearer(Jwt("HS256", Fallback, u, MaxNow + 1, EmailOf(u))) : u \in Users }

\* headers that the middleware or the dependency refuses: none, a token
\* without sub, and a third part after the token
RefusedHeaders ==
  { << >>,
    Bearer(Jwt("HS256", "k1", NoUser, MaxNow + 1, NoEmail)),
    << Word("Bearer"), SP, Tok(SomeToken), SP, Word("x") >> }

\* One request at a time, with a token that the middleware accepts or with a
\* header that is refused, the database failing at any storage call.
NextErr ==
  \/ Step({1}, ValidHeaders \cup FallbackHeaders \cup RefusedHeaders,
          PlainCreateBodies, PlainUpdateBodies)
  \/ StorageError(1)

SpecErr == Init /\ [][NextErr]_vars

\* One request at a time with titles of every length around the limits.
TitleCreateBodies ==
  { b \in [title : {"a"} \cup TitlesByLength, description : {NoDesc},
           user_id : {FieldUnset}] : TRUE }
TitleUpdateBodies ==
  { b \in [title : TitlesByLength \cup {FieldUnset}, description : {FieldUnset},
           completed : {"true", FieldUnset}, user_id : {FieldUnset}] : TRUE }

NextTitles == Step({1}, ValidHeaders \cup {<< >>}, TitleCreateBodies, TitleUpdateBodies)

SpecTitles == Init /\ [][NextTitles]_vars

\* Tasks are created, then toggled by MaxReq requests in flight together.  A
\* handler is an `async def` that never awaits, run by the one event loop of
\* uvicorn.run(app): the select and the commit of a toggle are one step, and
\* the stages of the requests interleave in every order.  A finished toggle
\* keeps its slot, so the slots count the toggles made.
NextToggle ==
  \/ Tick
  \/ \E r \in Reqs, h \in ValidHeaders, op \in {"create", "toggle"} :
        Dispatch(r, h, "u1", op)
  \/ \E r \in Reqs : GetCurrentUserId(r)
  \/ \E r \in Reqs, body \in PlainCreateBodies : CreateNewTask(r, body)
  \/ \E r \in Reqs, id \in TaskIds : ToggleTaskCompletionStatus(r, id)
  \/ \E r \in Reqs : req[r].op = "create" /\ Complete(r)

SpecToggle == Init /\ [][NextToggle]_vars

\* The functions of SessionService called one at a time, in any timezone.
Timezones == (0 - MaxTz) .. MaxTz
Thresholds == 0 .. MaxThreshold

NextSession ==
  \/ Tick
  \/ \E t \in Tokens, tz \in Timezones : ValidateSession(1, t, tz)
  \/ \E t \in Tokens, tz \in Timezones : GetRemainingSessionTime(1, t, tz)
  \/ \E t \in Tokens, tz \in Timezones, m \in Thresholds :
        IsSessionAboutToExpire(1, t, tz, m)
  \/ \E t \in Tokens, tz \in Timezones, u \in Users \cup {NoUser} :
        IsValidUserSession(1, t, tz, u)
  \/ Complete(1)

SpecSession == Init /\ [][NextSession]_vars

(* ======================================================================= *)
(*                               properties                                *)
(* ======================================================================= *)
\* the header is "Bearer <token>" with one token
HasBearerToken(h) == Len(h) = 3 /\ StartsWithBearer(h) /\ h[3].k = "tok"
TokenOf(q) == q.header[3].t

TaskRequest(q) == q.kind = "request" /\ q.path = TasksPath
Done(q) == q.pc = "done"

\* signed with HS256 and the secret the environment configures
ValidlySigned(tk) == tk.fmt = "jwt" /\ tk.alg = "HS256" /\ env # Unset /\ tk.key = env
Unexpired(tk, t) == tk.exp = NoExp \/ tk.exp > t
\* the clock at the last verification the request went through
VerifiedAt(q) == IF q.dep_at # 0 THEN q.dep_at ELSE q.mw_at

\* a finished request whose token was validly signed, carried a sub and was
\* unexpired whenever it was verified
ValidTokenRequest(q) ==
  /\ TaskRequest(q) /\ Done(q) /\ HasBearerToken(q.header)
  /\ ValidlySigned(TokenOf(q)) /\ ~MissingSub(TokenOf(q).sub)
  /\ q.mw_at # 0 /\ Unexpired(TokenOf(q), VerifiedAt(q))

\* C1: on every task endpoint, a request with a validly signed (with the
\* configured BETTER_AUTH_SECRET), unexpired token with sub = U is answered by
\* the handler; with the path owner U it passes verify_user_id_match (no 401,
\* 403 or 500, and the handler goes on to storage), with a path owner V # U
\* (compared exactly, case-sensitively) it is answered 403 before any storage
\* call, whatever the table holds.
C1_OwnerCheck ==
  \A r \in Reqs : LET q == req[r] IN
    ValidTokenRequest(q) =>
      /\ q.stage = "handler"
      /\ q.token_user_id = TokenOf(q).sub
      /\ q.user_id = TokenOf(q).sub =>
           /\ q.status \notin {401, 403, 500}
           /\ q.scope = q.user_id
      /\ q.user_id # TokenOf(q).sub =>
           /\ q.status = 403
           /\ q.scope = NoUser

\* a valid token of one user was used on the path of the other, who owns a
\* task, and the answer was 403; the two ids differ only in case
C1_Witness ==
  \E r \in Reqs : LET q == req[r] IN
    /\ ValidTokenRequest(q) /\ q.op = "delete" /\ q.status = 403
    /\ Lower(q.user_id) = Lower(TokenOf(q).sub)
    /\ \E row \in tasks : row.user_id = q.user_id

\* C2, in every state: the owner value a handler hands to task_crud is the
\* sub of the token the request was verified with, and every row a response
\* returns belongs to that sub.
IsolationState ==
  \A r \in Reqs : LET q == req[r] IN
    TaskRequest(q) =>
      /\ q.scope # NoUser => HasBearerToken(q.header) /\ q.scope = TokenOf(q).sub
      /\ \A row \in q.body : HasBearerToken(q.header) /\ row.user_id = TokenOf(q).sub

\* C2, in every step: a row that is modified, toggled or deleted (it is no
\* longer in the table as it was) belongs to the sub of the token of the
\* request whose handler took the step.
IsolationStep ==
  \A row \in tasks :
    row \notin tasks' =>
      \E r \in Reqs :
        /\ req[r].pc = "handler" /\ req'[r].pc = "done"
        /\ HasBearerToken(req[r].header)
        /\ TokenOf(req[r]).sub = row.user_id

\* C2: cross-user isolation, under every interleaving of the requests in
\* flight: a request authenticated as U never returns, modifies, toggles or
\* deletes a row whose user_id is not U, and every storage call is scoped by
\* the verified token's sub.
C2_Isolation == [][IsolationStep /\ IsolationState']_vars

\* a user's update, delete or toggle addressed the id of a row of another user
\* while another request was in flight: the storage call was scoped to the
\* caller, found nothing, and the row is still there
C2_Witness ==
  \E r \in Reqs : LET q == req[r] IN
    /\ TaskRequest(q) /\ Done(q) /\ q.op \in {"update", "delete", "toggle"}
    /\ q.scope # NoUser /\ q.status = 404
    /\ \E row \in tasks : row.id = q.task_id /\ row.user_id # q.scope
    /\ \E r2 \in Reqs \ {r} : req[r2].pc = "handler"

\* a create request that reached its handler holding a token of sub U on the
\* path of U
OwnCreate(q) ==
  /\ TaskRequest(q) /\ Done(q) /\ q.op = "create" /\ q.stage = "handler"
  /\ HasBearerToken(q.header) /\ q.user_id = TokenOf(q).sub

\* C3: task creation stamps user_id from the authenticated identity.  For a
\* valid token with sub = U, POST /api/U/tasks with any body that passes the
\* TaskCreate validation, also one carrying an owner field user_id = V # U, is
\* answered 201, and the row stored and the row returned have user_id = U; no
\* create is answered 201 with a row of another owner.
C3_CreateStampsOwner ==
  \A r \in Reqs : LET q == req[r] IN
    /\ OwnCreate(q) => q.status = 201
    /\ (TaskRequest(q) /\ Done(q) /\ q.op = "create" /\ q.status = 201) =>
         /\ HasBearerToken(q.header)
         /\ \E row \in q.body : q.body = {row} /\ row.id = q.task_id
         /\ \A row \in q.body : row.user_id = TokenOf(q).sub /\ row \in tasks
         /\ \A row \in tasks : row.id = q.task_id => row.user_id = TokenOf(q).sub

\* a create whose body carried the user_id of another user was answered 201
C3_Witness ==
  \E r \in Reqs : LET q == req[r] IN
    /\ OwnCreate(q) /\ q.status = 201
    /\ q.sent_user_id \in Users \ {TokenOf(q).sub}
    /\ \E row \in tasks : row.id = q.task_id

\* C4: set isolation of listing.  Whatever rows of whichever users the table
\* holds, GET /api/U/tasks with a token for U returns exactly the rows whose
\* user_id is U: all of them and no row of another user.
C4_ListIsolation ==
  \A r \in Reqs : LET q == req[r] IN
    (TaskRequest(q) /\ Done(q) /\ q.op = "list" /\ q.status = 200) =>
      /\ HasBearerToken(q.header)
      /\ q.body = { row \in tasks : row.user_id = TokenOf(q).sub }

\* a listing returned a row while the table also held a row of another user
C4_Witness ==
  \E r \in Reqs : LET q == req[r] IN
    /\ TaskRequest(q) /\ Done(q) /\ q.op = "list" /\ q.status = 200
    /\ q.body # {}
    /\ \E row \in tasks : row.user_id # q.user_id

\* C5: the owner of a task is immutable.  No step (update, toggle, create or
\* delete by any user) changes the user_id of a stored row: while a row with
\* an id is stored, its user_id is the one it was created with.
C5_OwnerImmutable ==
  [][\A row \in tasks : \A row2 \in tasks' :
       row2.id = row.id => row2.user_id = row.user_id]_vars

\* an update whose body carried the user_id of another user was applied
C5_Witness ==
  \E r \in Reqs : LET q == req[r] IN
    /\ TaskRequest(q) /\ Done(q) /\ q.op = "update" /\ q.status = 200
    /\ q.sent_user_id \in Users \ {q.user_id}
    /\ \E row \in tasks : row.id = q.task_id /\ row.title = "b" /\ row.user_id = q.user_id

\* a request for a task endpoint that has entered the pipeline with a header
\* "Bearer <token>" whose token parses as a JWT
JwtRequest(q) ==
  /\ TaskRequest(q) /\ q.pc # "idle" /\ HasBearerToken(q.header)
  /\ TokenOf(q).fmt = "jwt"

\* a finished call of SessionService.validate_session on a JWT
SessionCall(q) ==
  /\ q.kind = "validate_session" /\ Done(q) /\ q.dep_token[1].t.fmt = "jwt"
SessionToken(q) == q.dep_token[1].t

\* the request has got past verification: the dependency returned a user id
ReachedHandler(q) == q.pc = "handler" \/ q.stage = "handler"

\* get_current_user_id called on its own (no middleware in front of it) with
\* the header "Bearer <t>"
DependencyAlone(t) ==
  get_current_user_id([Idle EXCEPT !.pc = "dep", !.kind = "request", !.path = TasksPath,
                                   !.op = "list", !.user_id = "u1", !.header = Bearer(t)])

\* C6: a token is accepted only if its signature verifies against the shared
\* secret and its exp claim is present and strictly in the future at
\* verification time: no request reaches a task handler with a token that
\* lacks exp or whose exp is at or before the clock at verification.
C6_ExpRequired ==
  \A r \in Reqs : LET q == req[r] IN
    (TaskRequest(q) /\ ReachedHandler(q)) =>
      /\ HasBearerToken(q.header)
      /\ TokenOf(q).fmt = "jwt" /\ TokenOf(q).alg = "HS256" /\ TokenOf(q).key = env
      /\ TokenOf(q).exp # NoExp
      /\ TokenOf(q).exp > q.dep_at

\* signed with HS256 and the secret the middleware and SessionService verify with
CorrectlySigned(tk) == tk.fmt = "jwt" /\ tk.alg = "HS256" /\ tk.key = settings_secret

\* C7: a correctly signed token whose exp is in the past (even by one second)
\* when the request arrives is refused by the middleware with 401 "Token has
\* expired" on every protected endpoint, and the handler never runs; a token
\* that expires before the dependency verifies it is refused there with 401;
\* SessionService.validate_session returns None for an expired token.
C7_ExpiredRejected ==
  \A r \in Reqs : LET q == req[r] IN
    /\ (JwtRequest(q) /\ CorrectlySigned(TokenOf(q)) /\ TokenOf(q).exp # NoExp
        /\ TokenOf(q).exp < q.mw_at) =>
          /\ Done(q) /\ q.status = 401 /\ q.stage = "middleware"
          /\ q.detail = "Token has expired" /\ q.err = "ExpiredSignatureError"
          /\ q.scope = NoUser /\ q.token_user_id = NoUser
    /\ (JwtRequest(q) /\ TokenOf(q).exp # NoExp /\ q.dep_at # 0
        /\ TokenOf(q).exp < q.dep_at) =>
          /\ Done(q) /\ q.status = 401 /\ q.stage = "dependency"
          /\ q.err = "ExpiredSignatureError" /\ q.scope = NoUser
    /\ (SessionCall(q) /\ CorrectlySigned(SessionToken(q)) /\ SessionToken(q).exp # NoExp
        /\ SessionToken(q).exp < q.called_at) =>
          q.session = NoSession

\* a correctly signed token of u1 that expired one second before the request
\* arrived on u1's own path was answered 401
C7_Witness ==
  \E r \in Reqs : LET q == req[r] IN
    /\ JwtRequest(q) /\ CorrectlySigned(TokenOf(q)) /\ TokenOf(q).exp # NoExp
    /\ TokenOf(q).exp = q.mw_at - 1 /\ q.user_id = TokenOf(q).sub
    /\ Done(q) /\ q.status = 401 /\ q.detail = "Token has expired"

\* C8: a token signed with a secret other than the configured one fails
\* verification whatever its payload: the request is refused with 401 by the
\* middleware and no handler runs, get_current_user_id on its own refuses it
\* with 401, and SessionService.validate_session returns None.
C8_WrongSecretRejected ==
  /\ \A r \in Reqs : LET q == req[r] IN
       /\ (JwtRequest(q) /\ TokenOf(q).key # settings_secret) =>
             /\ Done(q) /\ q.status = 401 /\ q.stage = "middleware"
             /\ q.scope = NoUser /\ q.token_user_id = NoUser
       /\ (SessionCall(q) /\ SessionToken(q).key # settings_secret) =>
             q.session = NoSession
  /\ \A t \in Tokens :
       (t.fmt = "jwt" /\ getenv_secret # Unset /\ t.key # getenv_secret) =>
          /\ DependencyAlone(t).pc = "done"
          /\ DependencyAlone(t).status = 401

\* an unexpired HS256 token for u1 signed with another secret was refused on
\* u1's own path
C8_Witness ==
  \E r \in Reqs : LET q == req[r] IN
    /\ JwtRequest(q) /\ TokenOf(q).alg = "HS256" /\ TokenOf(q).key = OtherSecret
    /\ Unexpired(TokenOf(q), now) /\ q.user_id = TokenOf(q).sub
    /\ Done(q) /\ q.status = 401

\* C9: a token whose payload lacks the sub claim (or has an empty one) never
\* reaches verify_user_id_match or a task handler; when it is correctly signed
\* with the configured secret and unexpired, get_current_user_id refuses it
\* with 401.
C9_MissingSubRejected ==
  \A r \in Reqs : LET q == req[r] IN
    (JwtRequest(q) /\ TokenOf(q).sub \in {NoUser, ""}) =>
      /\ ~ReachedHandler(q)
      /\ q.scope = NoUser /\ q.token_user_id = NoUser
      /\ (Done(q) /\ ValidlySigned(TokenOf(q)) /\ Unexpired(TokenOf(q), VerifiedAt(q))) =>
           /\ q.status = 401 /\ q.stage = "dependency"
           /\ q.detail = "Token missing 'sub' claim (user ID)"

\* a correctly signed, unexpired token without sub passed the middleware and
\* was refused by the dependency
C9_Witness ==
  \E r \in Reqs : LET q == req[r] IN
    /\ JwtRequest(q) /\ TokenOf(q).sub = NoUser /\ ValidlySigned(TokenOf(q))
    /\ Done(q) /\ q.status = 401 /\ q.stage = "dependency" /\ q.dep_at # 0

\* C10: the verifier pins HS256.  A token whose header names another
\* algorithm, "none" included, is refused by the middleware (401, no handler),
\* by get_current_user_id on its own, and by SessionService.validate_session,
\* also when it is signed with the right secret and unexpired.
C10_AlgorithmPinned ==
  /\ \A r \in Reqs : LET q == req[r] IN
       /\ (JwtRequest(q) /\ TokenOf(q).alg # "HS256") =>
             /\ Done(q) /\ q.status = 401 /\ q.stage = "middleware"
             /\ q.err = "InvalidAlgorithmError"
             /\ q.scope = NoUser /\ q.token_user_id = NoUser
       /\ (SessionCall(q) /\ SessionToken(q).alg # "HS256") =>
             q.session = NoSession
  /\ \A t \in Tokens :
       (t.fmt = "jwt" /\ t.alg # "HS256") =>
          /\ DependencyAlone(t).pc = "done"
          /\ DependencyAlone(t).status \in {401, 500}
          /\ getenv_secret # Unset => DependencyAlone(t).status = 401

\* an unexpired HS512 token signed with the configured secret was refused
C10_Witness ==
  \E r \in Reqs : LET q == req[r] IN
    /\ JwtRequest(q) /\ TokenOf(q).alg = "HS512" /\ TokenOf(q).key = settings_secret
    /\ Unexpired(TokenOf(q), now)
    /\ Done(q) /\ q.status = 401

\* the whitespace-separated parts of a header value
HeaderParts(h) == SelectSeq(h, LAMBDA a : a # SP)

\* str.lower() on the scheme words of the model
LowerScheme(w) == IF w = "Bearer" THEN "bearer" ELSE w

\* two whitespace-separated parts, the first being "Bearer" in any case
TwoPartBearer(h) ==
  /\ Len(HeaderParts(h)) = 2
  /\ LowerScheme(HeaderParts(h)[1].k) = "bearer"

\* some jwt.decode call was made on the request's token
TokenVerified(q) == q.mw_at # 0 \/ q.dep_at # 0

\* C11: the Authorization header is accepted for token verification exactly
\* when it consists of two whitespace-separated parts whose first part is
\* "Bearer" in any letter case; every other shape is refused with 401 as a
\* malformed header and no token is verified.
C11_HeaderShape ==
  \A r \in Reqs : LET q == req[r] IN
    (TaskRequest(q) /\ q.pc # "idle") =>
      /\ TwoPartBearer(q.header) <=> TokenVerified(q)
      /\ ~TwoPartBearer(q.header) =>
           /\ Done(q) /\ q.status = 401
           /\ q.detail \in {"Missing or invalid Authorization header",
                            "Invalid authorization header format. Expected 'Bearer <token>'",
                            "Token not provided"}

\* C12: a request to a task endpoint with no Authorization header is answered
\* 401 and the response carries WWW-Authenticate: Bearer; every 401 response
\* carries that header.
C12_WwwAuthenticate ==
  \A r \in Reqs : LET q == req[r] IN
    (TaskRequest(q) /\ Done(q)) =>
      /\ q.header = << >> => q.status = 401 /\ q.www
      /\ q.status = 401 => q.www

\* the token is expired at one of the verifications the request went through
ExpiredWhenVerified(q) ==
  /\ TokenOf(q).exp # NoExp
  /\ \/ q.mw_at # 0 /\ TokenOf(q).exp <= q.mw_at
     \/ q.dep_at # 0 /\ TokenOf(q).exp <= q.dep_at

\* the request fails authentication: header missing or malformed, token not
\* verifying under the application's secret with HS256, expired, or without sub
AuthenticationFailure(q) ==
  \/ ~HasBearerToken(q.header)
  \/ ~CorrectlySigned(TokenOf(q))
  \/ ExpiredWhenVerified(q)
  \/ TokenOf(q).sub \in {NoUser, ""}

\* C13: failure mapping.  A request that fails authentication ends in 401,
\* never 403, 404 or 500, also when the path owner differs from the sub; a
\* request that passes authentication and whose path owner differs from the
\* token's sub ends in 403.
C13_FailureMapping ==
  \A r \in Reqs : LET q == req[r] IN
    (TaskRequest(q) /\ Done(q)) =>
      /\ AuthenticationFailure(q) => q.status = 401
      /\ (~AuthenticationFailure(q) /\ q.user_id # TokenOf(q).sub) => q.status = 403

\* the step issues a storage call for the request in slot r
StorageIssued(r) == req[r].scope = NoUser /\ req'[r].scope # NoUser

\* before the step, the request in slot r had its token verified by the
\* middleware and by the dependency, in this order, and its path owner is
\* the verified sub
VerifiedThenMatched(r) ==
  LET q == req[r] IN
  /\ q.pc = "handler" /\ HasBearerToken(q.header)
  /\ q.mw_at # 0 /\ q.dep_at # 0 /\ q.mw_at <= q.dep_at /\ q.err = ""
  /\ q.state_user_id = TokenOf(q).sub /\ q.token_user_id = TokenOf(q).sub
  /\ verify_user_id_match(q.user_id, q.token_user_id)

\* C14: ordering of the pipeline.  A storage query or write is issued for a
\* request only after its token was verified and then its path owner was
\* found equal to the sub; the table changes only in such a step; a request
\* that ends in 401 or 403 has issued no storage call.
C14_Ordering ==
  [][ /\ \A r \in Reqs : StorageIssued(r) => VerifiedThenMatched(r)
      /\ tasks' # tasks => \E r \in Reqs : StorageIssued(r) /\ VerifiedThenMatched(r)
      /\ \A r \in Reqs :
           (TaskRequest(req'[r]) /\ Done(req'[r]) /\ req'[r].status \in {401, 403}) =>
              req'[r].scope = NoUser
    ]_vars

\* a create was stored after the middleware verified the token, the clock
\* advanced, and the dependency verified it again
C14_Witness ==
  \E r \in Reqs : LET q == req[r] IN
    /\ TaskRequest(q) /\ Done(q) /\ q.op = "create" /\ q.status = 201
    /\ q.mw_at # 0 /\ q.dep_at > q.mw_at /\ q.scope = q.user_id
    /\ \E row \in tasks : row.id = q.task_id

\* the middleware accepted the token it took from the header
PassedMiddleware(q) ==
  /\ Len(q.mw_token) = 1 /\ q.mw_token[1].k = "tok"
  /\ CorrectlySigned(q.mw_token[1].t) /\ Unexpired(q.mw_token[1].t, q.mw_at)
  /\ q.mw_at # 0

\* C15: public paths bypass authentication by an allow-list tested before any
\* token handling.  A request for /docs, /redoc, /openapi.json, /health or /
\* is handed on whatever its Authorization header, without the header being
\* read or a token verified, and is never answered 401; /health answers 200
\* {"status": "healthy"}.  A request for any other path gets past the
\* middleware only with a token that the middleware's verification accepts,
\* and is answered 401 otherwise.
C15_PublicAllowList ==
  \A r \in Reqs : LET q == req[r] IN
    (q.kind = "request" /\ q.pc # "idle") =>
      /\ q.path \in PublicPaths =>
           /\ Done(q) /\ q.stage = "public" /\ q.status # 401
           /\ ~TokenVerified(q) /\ q.mw_token = << >> /\ q.dep_token = << >>
           /\ q.path = "/health" => q.status = 200 /\ q.detail = "healthy"
      /\ q.path \notin PublicPaths =>
           \/ PassedMiddleware(q)
           \/ Done(q) /\ q.status = 401 /\ q.stage = "middleware"

\* /health answered 200 to a request whose Authorization header carries a
\* token that verification would refuse
C15_Witness ==
  \E r \in Reqs : LET q == req[r] IN
    /\ q.kind = "request" /\ Done(q) /\ q.path = "/health" /\ q.status = 200
    /\ HasBearerToken(q.header) /\ TokenOf(q).key = OtherSecret

\* the endpoints that address a task by id
IdOps == {"get", "update", "delete", "toggle"}

\* what the client sees of a response
Response(q) == [status |-> q.status, detail |-> q.detail, www |-> q.www, body |-> q.body]

\* C16: no existence oracle.  When a requester authenticated as U calls GET,
\* PUT, DELETE or PATCH .../complete on /api/U/tasks/{id} and U owns no task
\* with that id, the response is the same 404 with the same body whether no
\* task has the id or a task of another user has it, and the table is left as
\* it was.
C16_NoExistenceOracle ==
  [][\A r \in Reqs :
       (/\ req[r].pc = "handler" /\ req'[r].pc = "done"
        /\ req[r].op \in IdOps
        /\ req[r].user_id = req[r].token_user_id
        /\ ~\E row \in tasks : row.id = req'[r].task_id /\ row.user_id = req[r].user_id)
       => /\ Response(req'[r]) =
               [status |-> 404, detail |-> "Task not found or does not belong to user",
                www |-> FALSE, body |-> {}]
          /\ tasks' = tasks
    ]_vars

\* an update by one user addressed the id of a task of the other user: the
\* answer is 404 with the fixed body and the task is as its owner left it
C16_Witness ==
  \E r \in Reqs : LET q == req[r] IN
    /\ TaskRequest(q) /\ Done(q) /\ q.op = "update" /\ q.status = 404
    /\ q.user_id = q.token_user_id
    /\ \E row \in tasks : row.id = q.task_id /\ row.user_id # q.user_id
                          /\ row.updated_at = row.created_at

\* C17: start-up is fatal on a bad signing secret.  When BETTER_AUTH_SECRET
\* is missing or is the built-in fallback value, the process never reaches
\* the state in which it serves requests: no request is ever taken up.
C17_StartupFatal ==
  (env = Unset \/ settings_secret = Fallback) =>
     \A r \in Reqs : req[r].pc = "idle"

\* every identity the request carries is the sub of its own token
OwnIdentity(q) ==
  /\ q.state_user_id # NoUser => HasBearerToken(q.header) /\ q.state_user_id = TokenOf(q).sub
  /\ q.token_user_id # NoUser => HasBearerToken(q.header) /\ q.token_user_id = TokenOf(q).sub
  /\ q.scope # NoUser => HasBearerToken(q.header) /\ q.scope = TokenOf(q).sub
  /\ q.pc = "handler" => q.token_user_id # NoUser

\* C18: no authorization state is shared between requests.  Under every
\* interleaving of the requests in flight, also when a request is abandoned
\* before its pipeline completes, the identity a handler uses for the owner
\* check and for scoping storage is the sub of that request's own token, and
\* a step of one request leaves every other request as it was.
C18_NoSharedIdentity ==
  [][ /\ \A r \in Reqs : TaskRequest(req'[r]) => OwnIdentity(req'[r])
      /\ \A r, r2 \in Reqs : (r # r2 /\ req'[r] # req[r]) => req'[r2] = req[r2]
    ]_vars

\* requests of two different users are at their handlers together
C18_Witness ==
  \E r, r2 \in Reqs :
    /\ r # r2 /\ req[r].pc = "handler" /\ req[r2].pc = "handler"
    /\ req[r].token_user_id = "u1" /\ req[r2].token_user_id = "U1"
    /\ req[r].user_id = "u1" /\ req[r2].user_id = "U1"

\* names of configuration variables that a response detail spells out
ConfigNamesIn(detail) ==
  IF detail = "Server configuration error: BETTER_AUTH_SECRET not set"
    THEN {"BETTER_AUTH_SECRET"}
  ELSE {}

\* the request met an error outside the 401/403/404/422 taxonomy: the secret
\* is missing when the dependency needs it, or the storage call raised
UnexpectedError(q) ==
  \/ q.stage = "dependency" /\ q.dep_token # << >> /\ getenv_secret = Unset
  \/ q.stage = "handler" /\ q.detail \in { InternalErrorDetail(op) : op \in Ops }

\* C19: every unexpected per-request error (a storage exception, a missing
\* secret discovered while handling a request) is answered 500 with a fixed
\* generic message that exposes no internal detail such as the name of a
\* configuration variable.
C19_Generic500 ==
  \A r \in Reqs : LET q == req[r] IN
    (TaskRequest(q) /\ Done(q)) =>
      /\ UnexpectedError(q) => q.status = 500
      /\ q.status = 500 => ConfigNamesIn(q.detail) = {}

\* the details of the error responses: constants of the source text
FixedDetails ==
  { "Missing or invalid Authorization header", "Token has expired", "Invalid token",
    "Invalid authorization header format. Expected 'Bearer <token>'",
    "Token not provided", "Token missing 'sub' claim (user ID)",
    "Server configuration error: BETTER_AUTH_SECRET not set",
    "Access denied: user_id mismatch",
    "Task not found or does not belong to user", "Not Found" }
  \cup { "Invalid or expired token: " \o ExceptionText(e) :
           e \in {"DecodeError", "InvalidAlgorithmError", "InvalidSignatureError",
                  "ExpiredSignatureError"} }
  \cup { InternalErrorDetail(op) : op \in Ops }

\* the rows of the table that belong to user u
OwnRows(T, u) == { row \in T : row.user_id = u }

\* C20, in every state: an error response (401, 403, 404, 500) has no rows
\* and its detail is one of the fixed texts, which name no user and no task;
\* every row a response returns belongs to the sub of the request's token.
NoForeignData ==
  \A r \in Reqs : LET q == req[r] IN
    (TaskRequest(q) /\ Done(q)) =>
      /\ q.status >= 400 => q.body = {} /\ q.detail \in FixedDetails
      /\ q.status < 400 => q.detail = ""
      /\ \A row \in q.body : HasBearerToken(q.header) /\ row.user_id = TokenOf(q).sub

\* C20, in every handler step that answers: the response is determined by the
\* request and the requester's own rows.  The same step taken from a table
\* that differs in the rows of other users answers the same: 403 exactly when
\* the path owner is not the sub; otherwise 404 exactly when the requester
\* owns no task with the id, and the rows returned are the requester's own.
OwnDataDetermines ==
  \A r \in Reqs :
    (req[r].pc = "handler" /\ req'[r].pc = "done" /\ req'[r].status # 500) =>
      LET q == req'[r]
          own == OwnRows(tasks, req[r].token_user_id)
          own2 == OwnRows(tasks', req[r].token_user_id) IN
      /\ q.status = 403 <=> req[r].user_id # req[r].token_user_id
      /\ q.status # 403 =>
           /\ q.op = "list" => q.status = 200 /\ q.body = own
           /\ q.op \in IdOps =>
                /\ q.status = 404 <=> ~\E row \in own : row.id = q.task_id
                /\ q.body \subseteq { row \in own2 : row.id = q.task_id }
           /\ q.op = "create" => q.status = 201 /\ q.body \subseteq own2

\* C20: no response to a request authenticated as U, or to an unauthenticated
\* request, carries the identifier or the task data of another user: error
\* details are fixed texts, rows returned are U's, and the outcome is
\* determined by U's own rows.
C20_NoForeignData == [][NoForeignData' /\ OwnDataDetermines]_vars

\* a request of one user was answered 404 for the id of a task of the other
\* user, with the fixed detail and no rows
C20_Witness ==
  \E r \in Reqs : LET q == req[r] IN
    /\ TaskRequest(q) /\ Done(q) /\ q.op = "get" /\ q.status = 404
    /\ q.detail \in FixedDetails /\ q.body = {}
    /\ \E row \in tasks : row.id = q.task_id /\ row.user_id # q.user_id

\* the request as it stood when get_current_user_id was called on it
BeforeDependency(q) ==
  [Idle EXCEPT !.pc = "dep", !.kind = q.kind, !.path = q.path, !.op = q.op,
               !.header = q.header, !.user_id = q.user_id, !.mw_token = q.mw_token,
               !.mw_at = q.mw_at, !.state_user_id = q.state_user_id,
               !.state_email = q.state_email]

\* C21, in every state: verifying once more, at the same clock value, the
\* token that was verified gives the same outcome: the same session (sub,
\* email, exp) from validate_session, the same user id or the same refusal
\* from get_current_user_id.
SameAgain ==
  \A r \in Reqs : LET q == req[r] IN
    /\ (q.kind = "validate_session" /\ Done(q) /\ q.called_at = now) =>
          validate_session(q.dep_token, q.tz, now) = q.session
    /\ (TaskRequest(q) /\ q.dep_at = now) =>
          LET again == get_current_user_id(BeforeDependency(q)) IN
          /\ again.token_user_id = q.token_user_id
          /\ again.dep_token = q.dep_token /\ again.err = q.err
          /\ q.stage = "dependency" => again = q

\* C21, in every step that verifies (get_current_user_id on a request, or a
\* call of validate_session): the task store, the secret and the clock are
\* left as they were, and so is every other request.
VerificationFrame ==
  \A r \in Reqs :
    (\/ req[r].pc = "dep" /\ req'[r].pc \in {"handler", "done"}
     \/ req[r].pc = "idle" /\ req'[r].kind = "validate_session")
    => /\ UNCHANGED << env, now, tasks, nextId >>
       /\ \A r2 \in Reqs \ {r} : req'[r2] = req[r2]

SessionCallOf(q, kind) == q.kind = kind /\ Done(q)

\* seconds from the clock of the call to the token's exp
SecondsLeft(q) == SecondsPerMinute * (SessionToken(q).exp - q.called_at)

\* C22: get_remaining_session_time returns None for every undecodable token
\* and for every token whose exp is before the time of the call, and a
\* positive duration for every token whose exp is after it.
C22_RemainingTime ==
  \A r \in Reqs : LET q == req[r] tk == SessionToken(q) IN
    SessionCallOf(q, "get_remaining_session_time") =>
      /\ tk.fmt # "jwt" => q.remaining.none
      /\ (tk.fmt = "jwt" /\ tk.exp # NoExp /\ tk.exp < q.called_at) => q.remaining.none
      /\ (tk.fmt = "jwt" /\ tk.exp # NoExp /\ tk.exp > q.called_at) =>
            ~q.remaining.none /\ q.remaining.seconds > 0

\* C23: for a token that is undecodable or carries exp, is_valid_user_session
\* returns True if and only if the token is signed with the secret, names
\* HS256, has its exp after the time of the call, and its sub equals the
\* expected user id.
C23_ValidUserSession ==
  \A r \in Reqs : LET q == req[r] tk == SessionToken(q) IN
    (SessionCallOf(q, "is_valid_user_session") /\ (tk.fmt = "jwt" => tk.exp # NoExp)) =>
      (q.flag <=> /\ CorrectlySigned(tk)
                  /\ tk.exp > q.called_at
                  /\ tk.sub = q.expected)

\* C24: is_session_about_to_expire returns True exactly when the token cannot
\* be decoded, carries no exp, or its exp is at most threshold_minutes*60
\* seconds after the time of the call.
C24_AboutToExpire ==
  \A r \in Reqs : LET q == req[r] tk == SessionToken(q) IN
    SessionCallOf(q, "is_session_about_to_expire") =>
      (q.flag <=> \/ tk.fmt # "jwt"
                  \/ tk.exp = NoExp
                  \/ SecondsLeft(q) <= q.threshold * SecondsPerMinute)

\* delete_task(task_id, U) on the present table: what it returns and the table
\* it leaves, against the rows stored
DeleteContract(task_id, U) ==
  LET stored == { row \in tasks : row.id = task_id /\ row.user_id = U }
      after == delete_task(tasks, task_id, U) IN
  /\ delete_task_returns(tasks, task_id, U) <=> stored # {}
  /\ delete_task_returns(tasks, task_id, U) =>
        /\ after = tasks \ stored
        /\ get_task_by_id(after, task_id, U) = {}
        /\ ~delete_task_returns(after, task_id, U)
        /\ delete_task(after, task_id, U) = after
  /\ ~delete_task_returns(tasks, task_id, U) => after = tasks

\* C25: delete_task(task_id, U) returns True and removes the task if and only
\* if a task with that id and user_id = U is stored; after a successful delete
\* get_task_by_id(task_id, U) returns None and a second delete returns False;
\* when it returns False the table is unchanged.  A DELETE request answered
\* 204 has left no row with its id for its user.
C25_DeleteContract ==
  /\ \A task_id \in TaskIds, U \in Users : DeleteContract(task_id, U)
  /\ \A r \in Reqs : LET q == req[r] IN
       (TaskRequest(q) /\ Done(q) /\ q.op = "delete" /\ q.status = 204) =>
          /\ get_task_by_id(tasks, q.task_id, q.user_id) = {}
          /\ ~delete_task_returns(tasks, q.task_id, q.user_id)

\* a DELETE of the owner was answered 204 while a task of the other user with
\* a different id stays stored
C25_Witness ==
  \E r \in Reqs : LET q == req[r] IN
    /\ TaskRequest(q) /\ Done(q) /\ q.op = "delete" /\ q.status = 204
    /\ q.user_id = "u1"
    /\ \E row \in tasks : row.user_id = "U1" /\ row.id # q.task_id

\* a finished create or update request that got past authentication and
\* carried the title `sent_title`
TitleRequest(q) ==
  /\ TaskRequest(q) /\ Done(q) /\ q.op \in {"create", "update"}
  /\ q.stage \in {"validation", "handler"}
  /\ q.sent_title # FieldUnset

\* C26: titles are limited to 200 characters: a create or update request
\* whose title is longer is answered 422 (or 403 when the requester is not the
\* owner), and no stored task has a title longer than 200 characters.
C26_TitleLimit ==
  /\ \A row \in tasks : len(row.title) <= ColumnTitleMax
  /\ \A r \in Reqs : LET q == req[r] IN
       (TitleRequest(q) /\ len(q.sent_title) > ColumnTitleMax) => q.status \in {422, 403}

\* the step in which the handler of request r answers `status` to operation op
Answers(r, op, status) ==
  /\ req[r].pc = "handler" /\ req'[r].pc = "done"
  /\ req'[r].op = op /\ req'[r].status = status

\* the value a field has after an update that may or may not supply it
Supplied(sent, old) == IF sent = FieldUnset THEN old ELSE sent

\* C27, for one step: when a PUT on a task of its owner is answered 200, the
\* row has the title, description and completed flag the request supplied and
\* the old value of each of these it did not supply, updated_at is the clock,
\* id, user_id and created_at are as before, and every other row, and the id
\* counter, are unchanged.
UpdateFrame ==
  \A r \in Reqs : Answers(r, "update", 200) =>
    LET q == req'[r]
        old == { row \in tasks : row.id = q.task_id }
        new == { row \in tasks' : row.id = q.task_id } IN
    /\ Cardinality(old) = 1 /\ Cardinality(new) = 1
    /\ \A o \in old, n \in new :
         /\ o.user_id = q.user_id
         /\ n.id = o.id /\ n.user_id = o.user_id /\ n.created_at = o.created_at
         /\ n.title = Supplied(q.sent_title, o.title)
         /\ n.description = Supplied(q.sent_description, o.description)
         /\ n.completed = IF q.sent_completed = FieldUnset THEN o.completed
                          ELSE q.sent_completed = "true"
         /\ n.updated_at = now
    /\ tasks' \ new = tasks \ old
    /\ nextId' = nextId

\* C27: the frame of a successful update.
C27_UpdateFrame == [][UpdateFrame]_vars

\* an update that supplied only completed was answered 200 for a task with a
\* description, created before the update, while the other user has a task
C27_Witness ==
  \E r \in Reqs : LET q == req[r] IN
    /\ TaskRequest(q) /\ Done(q) /\ q.op = "update" /\ q.status = 200
    /\ q.sent_title = FieldUnset /\ q.sent_description = FieldUnset
    /\ q.sent_completed = "true"
    /\ \E row \in q.body : row.description = "d" /\ row.completed
                           /\ row.created_at < row.updated_at
    /\ \E row \in tasks : row.user_id # q.user_id

\* the statuses of a rejected request
Rejections == {401, 403, 404, 422}

\* C28, for one step: a step of a request to a task endpoint that does not
\* finish it, or that finishes it with 401, 403, 404 or 422, leaves the rows
\* stored and the id counter as they were.
RejectedLeavesStore ==
  \A r \in Reqs :
    (/\ req'[r] # req[r]
     /\ TaskRequest(req'[r])
     /\ Done(req'[r]) => req'[r].status \in Rejections)
    => tasks' = tasks /\ nextId' = nextId

\* C28: rejected requests have no effect on storage.
C28_RejectedNoEffect == [][RejectedLeavesStore]_vars

\* with a task of u1 stored, a PUT of u1 on it was answered 422, or a request
\* of the other user on its id was answered 404
C28_Witness ==
  \E r \in Reqs : LET q == req[r] IN
    /\ TaskRequest(q) /\ Done(q)
    /\ \E row \in tasks : row.id = q.task_id /\ row.user_id = "u1" /\ ~row.completed
    /\ \/ q.op = "update" /\ q.status = 422 /\ q.user_id = "u1"
       \/ q.op = "toggle" /\ q.status = 404 /\ q.user_id = "U1"

\* the finished PATCH .../complete requests answered 200 for task id
SuccessfulToggles(id) ==
  { r \in Reqs : /\ TaskRequest(req[r]) /\ Done(req[r]) /\ req[r].op = "toggle"
                 /\ req[r].status = 200 /\ req[r].task_id = id }

\* C29, in every state: a task is created not completed, and after k
\* successful toggles of it, in whatever order their stages ran, it is
\* completed exactly when k is odd.
ToggleParity ==
  \A row \in tasks : row.completed <=> (Cardinality(SuccessfulToggles(row.id)) % 2 = 1)

\* C29, for one step: a toggle answered 200 negates completed, sets updated_at,
\* and changes no other field of the task and no other task.
ToggleFrame ==
  \A r \in Reqs : Answers(r, "toggle", 200) =>
    LET q == req'[r]
        old == { row \in tasks : row.id = q.task_id }
        new == { row \in tasks' : row.id = q.task_id } IN
    /\ Cardinality(old) = 1
    /\ \A o \in old : new = { [o EXCEPT !.completed = ~o.completed, !.updated_at = now] }
    /\ tasks' \ new = tasks \ old

\* C29: toggles count correctly under any interleaving.
C29_ToggleParity == []ToggleParity /\ [][ToggleFrame]_vars

\* two toggles of the same task were both answered 200 and the task is back at
\* not completed; another task is stored
C29_Witness ==
  /\ \E row \in tasks : /\ Cardinality(SuccessfulToggles(row.id)) = 2
                        /\ ~row.completed
                        /\ row.created_at < row.updated_at
  /\ Cardinality(tasks) = MaxTasks

\* the middleware accepted the request and get_current_user_id has run on it
BothLayersRan(q) ==
  /\ TaskRequest(q) /\ q.stage \in {"dependency", "handler"}
  /\ q.pc \in {"handler", "done"}

\* C30: for every Authorization header and BETTER_AUTH_SECRET set or unset,
\* the middleware and get_current_user_id extract the same token string, and
\* a request the middleware accepted is rejected by the dependency only with
\* 401 for a missing sub claim (or because the token expired between the two
\* verifications).
C30_LayersAgree ==
  \A r \in Reqs : LET q == req[r] IN
    BothLayersRan(q) =>
      /\ q.dep_token = q.mw_token
      /\ q.stage = "dependency" =>
           \/ q.status = 401 /\ q.detail = "Token missing 'sub' claim (user ID)"
           \/ q.status = 401 /\ q.err = "ExpiredSignatureError"

====
